---- MODULE Spec2Model ----
(***************************************************************************)
(* The notebooks of the repository as state machines.  A notebook is the   *)
(* sequence of its code cells, run top to bottom in one kernel; where a    *)
(* cell is given twice (an exercise cell with FIXME placeholders and its   *)
(* hidden solution), the solution cell is the code.  An exception ends the *)
(* run (pc = "error").  Calls into the dataframe, scheduler and ETL        *)
(* libraries are modelled by what the notebooks pass to them and by what   *)
(* the notebooks' own text says they do; Python built-ins by their         *)
(* documented behaviour.                                                   *)
(*                                                                         *)
(*   nb = "dash" : the dashboard notebook (src/unnamed/part_000)           *)
(*   nb = "etl"  : the transform notebook                                  *)
(*                 (ETL with NVTabular/2_Transforming_with_Ops.ipynb)      *)
(*   nb = "opt"  : the section "Dask Integration and Other Tools" of       *)
(*                 ETL with NVTabular/3_Op_Optimization.ipynb; the cells   *)
(*                 before it work on other directories and names           *)
(*   nb = "explore" : the data exploration notebook (src/unnamed/part_002) *)
(*   nb = "scale" : the scaling notebook (src/unnamed/part_001)            *)
(*   nb = "fmt"  : the data formats notebook (Data Formats/1_Data_Formats) *)
(*   nb = "emb"  : the embedding notebook                                  *)
(*                 (Enhancing Data Science Outcomes .../2_04_embedding)    *)
(***************************************************************************)
EXTENDS Integers, Sequences, FiniteSets, TLC

\* ------------------------------------------------------------------ bounds
\* CSV partitions behind "data/*.csv" in the dashboard notebook.
NumParts == 2
\* DATE values 1..MaxDate; their order is the order of the YYYY-MM-DD strings.
MaxDate == 2
\* Paths a glob pattern can match; 1 < 2 < ... is the lexicographic order of
\* the path strings.
MaxFiles == 3

\* Rows of data/AQC00914594.csv, and of the table read from processed_parquet.
MaxRows == 3
\* Label-encoded category ids 1..MaxCat of the column brand.
MaxCat == 2

\* Dashboard application objects constructed in one kernel.
MaxApps == 2
\* Times the cell that defines the callbacks is run on one application object.
MaxReg == 2

Parts == 1..NumParts
Dates == 1..MaxDate
Paths == 1..MaxFiles

VARIABLES
    nb,         \* which notebook this kernel runs
    pc,         \* the cell (or statement) to run next
    err,        \* the exception that ended the run, "none" while running
    \* ---- dashboard notebook
    dates,      \* DATE values held by each CSV partition (the input files)
    dstatus,    \* progress of each partition inside df.compute()
    df,         \* what the name df is bound to: "unbound", "lazy", "table"
    dfRows,     \* DATE values of the concrete table once df is a table
    date_min,   \* 0 while unbound
    date_max,   \* 0 while unbound
    layout,     \* app.layout: the DatePickerSingle bounds
    \* ---- transform notebook
    present,    \* paths the notebook's glob pattern matches: the *.parquet
                \* files of data/parquet_out/ (etl), the directory
                \* data/parquet_out itself, as path 1, when it exists (opt)
    dataCols,   \* columns the parquet files hold (their schema)
    graph,      \* column-group nodes declared so far
    file_paths, \* result of glob.glob
    globbed,    \* file_paths is bound
    workflow,   \* nvt.Workflow(all_cols) has been constructed
    dataset,    \* paths held by nvt.Dataset, in the order given
    hasDataset, \* dataset is bound
    fitSeen,    \* partitions whose statistics workflow.fit has collected
    stats,      \* "unset" or "fitted"
    tstatus,    \* progress of each partition inside transform().to_parquet()
    outFiles,   \* partitions written under data/transformed_out/
    \* ---- data exploration notebook
    csv,        \* rows of data/AQC00914594.csv, every cell as its raw text
    aqc_df,     \* the table aqc_df is bound to, <<>> while unbound
    aqcRead,    \* which read bound aqc_df: "unbound", "plain", "na_values"
    aqc_df_filtered, \* <<>> while unbound
    \* ---- embedding notebook
    parquet,    \* rows stored under processed_parquet
    gdf,        \* the table gdf is bound to, <<>> while unbound
    n_uniques,  \* gdf.nunique() of the column brand, 0 while unbound
    \* ---- dashboard notebook, the application
    precip,     \* Inches of the rows of each DATE
    appNo,      \* how many JupyterDash objects have been constructed
    appLive,    \* the name app is bound
    registered, \* callbacks registered on the current app for the figure output
    dupApps,    \* application objects that showed a duplicate callback error
    served,     \* app.run_server is running
    figure,     \* what the last update_graph callback returned
    \* ---- transform notebook, the read back
    readBack,   \* files cudf.read_parquet("data/transformed_out/*.parquet") found
    \* ---- scaling notebook
    rowsIn,     \* number of rows of each CSV partition
    counted,    \* partitions read so far by the call in progress
    readsBy,    \* the calls that have read the partitions' files
    lenResult,  \* what len(ddf) returned, -1 before
    described,  \* what the describe() cells displayed: "none", "lazy", "table"
    \* ---- data formats notebook
    api,        \* what the CO-OPS API does with the request in progress
    urlTimeout, \* the timeout the urlopen call in progress was given
    fetchNo,    \* which of the fetches is in progress or was last
    saved       \* data/<station>.txt has been written

dashVars == <<dates, dstatus, df, dfRows, date_min, date_max, layout>>
etlVars == <<present, dataCols, graph, file_paths, globbed, workflow, dataset,
             hasDataset, fitSeen, stats, tstatus, outFiles>>
expVars == <<csv, aqc_df, aqcRead, aqc_df_filtered>>
embVars == <<parquet, gdf, n_uniques>>
cbVars == <<precip, appNo, appLive, registered, dupApps, served, figure>>
scaleVars == <<rowsIn, counted, readsBy, lenResult, described>>
fmtVars == <<api, urlTimeout, fetchNo, saved>>
newVars == <<cbVars, readBack, scaleVars, fmtVars>>
vars == <<nb, pc, err, dashVars, etlVars, expVars, embVars, newVars>>

\* ------------------------------------------------------------------ helpers
Min(S) == CHOOSE x \in S : \A y \in S : x <= y
Max(S) == CHOOSE x \in S : \A y \in S : x >= y

Range(s) == {s[i] : i \in 1..Len(s)}

\* All orderings of a finite set, as sequences without repetition.
Perms(S) ==
    {s \in [1..Cardinality(S) -> S] : \A i, j \in 1..Cardinality(S) : s[i] = s[j] => i = j}

\* The ascending sequence of a set of paths.
Sorted(S) == CHOOSE s \in Perms(S) : \A i, j \in 1..Len(s) : i < j => s[i] < s[j]

\* Columns of the weather data selected by the extract notebook.
AllColumns ==
    {"STATION", "DATE", "HourlyDewPointTemperature", "HourlyDryBulbTemperature",
     "HourlyPrecipitation", "HourlyRelativeHumidity", "HourlyWetBulbTemperature",
     "HourlyWindDirection", "HourlyWindSpeed"}

\* Columns an input file set may lack.
MaybeMissing == {"HourlyWindSpeed", "HourlyDewPointTemperature"}

NoLayout == [set |-> FALSE, min_date_allowed |-> 0, max_date_allowed |-> 0]

\* ------------------------------------------------------------------ Init
DashInit0 ==
    /\ dates \in [Parts -> (SUBSET Dates) \ {{}}]
    /\ dstatus = [p \in Parts |-> "Unread"]
    /\ df = "unbound"
    /\ dfRows = {}
    /\ date_min = 0
    /\ date_max = 0
    /\ layout = NoLayout

EtlInit0 ==
    /\ present \in SUBSET Paths
    /\ \E m \in SUBSET MaybeMissing : dataCols = AllColumns \ m
    /\ graph = {}
    /\ file_paths = <<>>
    /\ globbed = FALSE
    /\ workflow = FALSE
    /\ dataset = <<>>
    /\ hasDataset = FALSE
    /\ fitSeen = {}
    /\ stats = "unset"
    /\ tstatus = [p \in Paths |-> "Unread"]
    /\ outFiles \in SUBSET Paths

\* The idle notebook keeps one fixed input, so that each run is counted once.
DashIdle ==
    /\ dates = [p \in Parts |-> {1}]
    /\ dstatus = [p \in Parts |-> "Unread"]
    /\ df = "unbound"
    /\ dfRows = {}
    /\ date_min = 0
    /\ date_max = 0
    /\ layout = NoLayout

EtlIdle ==
    /\ present = {}
    /\ dataCols = AllColumns
    /\ graph = {}
    /\ file_paths = <<>>
    /\ globbed = FALSE
    /\ workflow = FALSE
    /\ dataset = <<>>
    /\ hasDataset = FALSE
    /\ fitSeen = {}
    /\ stats = "unset"
    /\ tstatus = [p \in Paths |-> "Unread"]
    /\ outFiles = {}

OptInit0 ==
    /\ present \in {{}, {1}}
    /\ dataCols = AllColumns
    /\ graph = {}
    /\ file_paths = <<>>
    /\ globbed = FALSE
    /\ workflow = FALSE
    /\ dataset = <<>>
    /\ hasDataset = FALSE
    /\ fitSeen = {}
    /\ stats = "unset"
    /\ tstatus = [p \in Paths |-> "Unread"]
    /\ outFiles = {}

\* Columns of the CSV file the model follows: an hourly value, for which the
\* data's documentation reserves -9999 as "missing", and a station attribute.
Cols == {"HR00Val", "LATITUDE"}

\* Raw texts a cell of the CSV file can hold.
RawVals == {"-9999", "0", "5"}

ExpInit0 ==
    /\ csv \in UNION {[1..n -> [Cols -> RawVals]] : n \in 1..MaxRows}
    /\ aqc_df = <<>>
    /\ aqcRead = "unbound"
    /\ aqc_df_filtered = <<>>

ExpIdle ==
    /\ csv = <<>>
    /\ aqc_df = <<>>
    /\ aqcRead = "unbound"
    /\ aqc_df_filtered = <<>>

\* cols = ['brand', ..., 'target'] : one categorical column and the label.
EmbInit0 ==
    /\ parquet \in UNION {[1..n -> [brand : 1..MaxCat, target : {0, 1}]] : n \in 1..MaxRows}
    /\ gdf = <<>>
    /\ n_uniques = 0

EmbIdle ==
    /\ parquet = <<>>
    /\ gdf = <<>>
    /\ n_uniques = 0

NoFigure == [set |-> FALSE, date |-> 0, zeros |-> FALSE, points |-> {}]

\* app = JupyterDash(__name__) : one application object, nothing registered.
AppStart ==
    /\ appNo = 1
    /\ appLive = TRUE
    /\ registered = 0
    /\ dupApps = {}
    /\ served = FALSE
    /\ figure = NoFigure

CbInit0 ==
    /\ precip \in [Dates -> {0, 1}]
    /\ AppStart

CbIdle ==
    /\ precip = [d \in Dates |-> 0]
    /\ AppStart

ScaleStart ==
    /\ counted = {}
    /\ readsBy = {}
    /\ lenResult = 0 - 1
    /\ described = "none"

ScaleInit0 ==
    /\ rowsIn \in [Parts -> 1..2]
    /\ ScaleStart

ScaleIdle ==
    /\ rowsIn = [p \in Parts |-> 1]
    /\ ScaleStart

FmtInit0 ==
    /\ api = "idle"
    /\ urlTimeout = "unset"
    /\ fetchNo = 0
    /\ saved = FALSE

Init ==
    /\ err = "none"
    /\ readBack = {}
    /\ \/ /\ nb = "dash" /\ pc = "read_csv"
          /\ DashInit0 /\ CbInit0 /\ EtlIdle /\ ExpIdle /\ EmbIdle /\ ScaleIdle /\ FmtInit0
       \/ /\ nb = "etl" /\ pc = "read_parquet"
          /\ EtlInit0 /\ DashIdle /\ CbIdle /\ ExpIdle /\ EmbIdle /\ ScaleIdle /\ FmtInit0
       \/ /\ nb = "opt" /\ pc = "dataset_df"
          /\ OptInit0 /\ DashIdle /\ CbIdle /\ ExpIdle /\ EmbIdle /\ ScaleIdle /\ FmtInit0
       \/ /\ nb = "explore" /\ pc = "read_plain"
          /\ ExpInit0 /\ DashIdle /\ CbIdle /\ EtlIdle /\ EmbIdle /\ ScaleIdle /\ FmtInit0
       \/ /\ nb = "emb" /\ pc = "read_gdf"
          /\ EmbInit0 /\ DashIdle /\ CbIdle /\ EtlIdle /\ ExpIdle /\ ScaleIdle /\ FmtInit0
       \/ /\ nb = "scale" /\ pc = "read_csv_lazy"
          /\ ScaleInit0 /\ DashIdle /\ CbIdle /\ EtlIdle /\ ExpIdle /\ EmbIdle /\ FmtInit0
       \/ /\ nb = "fmt" /\ pc = "fetch"
          /\ FmtInit0 /\ DashIdle /\ CbIdle /\ EtlIdle /\ ExpIdle /\ EmbIdle /\ ScaleIdle

\* ====================================================== dashboard notebook
\* df = dask_cudf.read_csv("data/*.csv", usecols=..., dtype=..., na_values=...)
ReadCsv ==
    /\ nb = "dash" /\ pc = "read_csv"
    /\ df' = "lazy"
    /\ pc' = "define_cols"
    /\ UNCHANGED <<newVars, expVars, embVars, nb, err, dates, dstatus, dfRows, date_min, date_max, layout, etlVars>>

\* df["Inches"] = df["DlySum"] / 100 ; df["TEXT"] = ... : columns added to the
\* lazy frame.
DefineCols ==
    /\ nb = "dash" /\ pc = "define_cols"
    /\ df = "lazy"
    /\ pc' = "compute"
    /\ UNCHANGED <<newVars, expVars, embVars, nb, err, dashVars, etlVars>>

\* Inside df.compute(): one partition's CSV file is parsed.
ComputeRead(p) ==
    /\ nb = "dash" /\ pc = "compute"
    /\ dstatus[p] = "Unread"
    /\ dstatus' = [dstatus EXCEPT ![p] = "Read"]
    /\ UNCHANGED <<newVars, expVars, embVars, nb, pc, err, dates, df, dfRows, date_min, date_max, layout, etlVars>>

\* Inside df.compute(): the Inches and TEXT columns of one partition.
ComputeTransform(p) ==
    /\ nb = "dash" /\ pc = "compute"
    /\ dstatus[p] = "Read"
    /\ dstatus' = [dstatus EXCEPT ![p] = "Transformed"]
    /\ UNCHANGED <<newVars, expVars, embVars, nb, pc, err, dates, df, dfRows, date_min, date_max, layout, etlVars>>

\* Inside df.compute(): one partition's result is gathered for the table.
ComputeGather(p) ==
    /\ nb = "dash" /\ pc = "compute"
    /\ dstatus[p] = "Transformed"
    /\ dstatus' = [dstatus EXCEPT ![p] = "Materialized"]
    /\ UNCHANGED <<newVars, expVars, embVars, nb, pc, err, dates, df, dfRows, date_min, date_max, layout, etlVars>>

\* A mutant of ComputeDone: the call returns once any partition is gathered.
ComputeDone_Early == \E p \in Parts : dstatus[p] = "Materialized"

\* df.compute() returns the whole table: every partition has been gathered.
ComputeDone == \A p \in Parts : dstatus[p] = "Materialized"

\* df = df.compute() : the call returns and df is rebound to the table.
ComputeReturn ==
    /\ nb = "dash" /\ pc = "compute"
    /\ ComputeDone
    /\ df' = "table"
    /\ dfRows' = UNION {dates[p] : p \in {q \in Parts : dstatus[q] = "Materialized"}}
    /\ pc' = "min_max"
    /\ UNCHANGED <<newVars, expVars, embVars, nb, err, dates, dstatus, date_min, date_max, layout, etlVars>>

\* date_min = df["DATE"].min() ; date_max = df["DATE"].max()
MinMax ==
    /\ nb = "dash" /\ pc = "min_max"
    /\ df = "table"
    /\ date_min' = Min(dfRows)
    /\ date_max' = Max(dfRows)
    /\ pc' = "set_index"
    /\ UNCHANGED <<newVars, expVars, embVars, nb, err, dates, dstatus, df, dfRows, layout, etlVars>>

\* df = df.set_index('DATE')
SetIndex ==
    /\ nb = "dash" /\ pc = "set_index"
    /\ pc' = "layout"
    /\ UNCHANGED <<newVars, expVars, embVars, nb, err, dashVars, etlVars>>

\* app.layout = html.Div([... dcc.DatePickerSingle(min_date_allowed=date_min,
\*                                                 max_date_allowed=date_max ...
Layout ==
    /\ nb = "dash" /\ pc = "layout"
    /\ layout' = [set |-> TRUE, min_date_allowed |-> date_min, max_date_allowed |-> date_max]
    /\ pc' = "callbacks"
    /\ UNCHANGED <<newVars, expVars, embVars, nb, err, dates, dstatus, df, dfRows, date_min, date_max, etlVars>>

\* A callback registered for an output that n earlier registrations on the
\* same application object already write: "There will be a duplicate callback
\* error if the cell defining the callbacks was ran more than once."
\* A mutant of Duplicate: no registration counts as a duplicate.
Duplicate_Never(n) == FALSE

Duplicate(n) == n >= 1

\* @app.callback(Output('precipitation-map', 'figure'), [...]) def update_graph
\* The cell can be run again, and its reference copy can be run as well.
RegisterCallback ==
    /\ nb = "dash" /\ pc = "callbacks"
    /\ appLive
    /\ registered < MaxReg
    /\ registered' = registered + 1
    /\ dupApps' = IF Duplicate(registered) THEN dupApps \cup {appNo} ELSE dupApps
    /\ UNCHANGED <<readBack, scaleVars, fmtVars, expVars, embVars, nb, pc, err, dashVars,
                   etlVars, precip, appNo, appLive, served, figure>>

\* app.run_server(host='0.0.0.0', debug=True)
RunServer ==
    /\ nb = "dash" /\ pc = "callbacks"
    /\ appLive
    /\ registered >= 1
    /\ served' = TRUE
    /\ pc' = "serving"
    /\ UNCHANGED <<readBack, scaleVars, fmtVars, expVars, embVars, nb, err, dashVars,
                   etlVars, precip, appNo, appLive, registered, dupApps, figure>>

\* dff = df[df.index==date_value]
\* dff = dff if show_zeros else dff[dff["Inches"] != 0]
\* The points of the figure built from dff.
Points(rows, date_value, show_zeros) ==
    {[DATE |-> d, Inches |-> precip[d]] :
        d \in {x \in rows : x = date_value /\ (show_zeros \/ precip[x] # 0)}}

\* A mutant of UpdateGraph: the callback filters the shared table itself,
\* df = df if show_zeros else df[df["Inches"] != 0], and draws from it.
UpdateGraph_Mutating(date_value, show_zeros) ==
    /\ nb = "dash" /\ pc = "serving"
    /\ served
    /\ dfRows' = IF show_zeros THEN dfRows ELSE {x \in dfRows : precip[x] # 0}
    /\ figure' = [set |-> TRUE, date |-> date_value, zeros |-> show_zeros,
                  points |-> Points(dfRows', date_value, TRUE)]
    /\ UNCHANGED <<readBack, scaleVars, fmtVars, expVars, embVars, nb, pc, err, etlVars,
                   dates, dstatus, df, date_min, date_max, layout,
                   precip, appNo, appLive, registered, dupApps, served>>

\* update_graph(date_value, show_zeros), called by the server when the date
\* picker or the switch changes; it returns the figure and assigns only its
\* local name dff.
UpdateGraph(date_value, show_zeros) ==
    /\ nb = "dash" /\ pc = "serving"
    /\ served
    /\ figure' = [set |-> TRUE, date |-> date_value, zeros |-> show_zeros,
                  points |-> Points(dfRows, date_value, show_zeros)]
    /\ UNCHANGED <<readBack, scaleVars, fmtVars, expVars, embVars, nb, pc, err, dashVars,
                   etlVars, precip, appNo, appLive, registered, dupApps, served>>

\* app._terminate_server_for_port("localhost", 8050) ; del app
Terminate ==
    /\ nb = "dash" /\ pc = "serving"
    /\ served' = FALSE
    /\ appLive' = FALSE
    /\ registered' = 0
    /\ figure' = NoFigure
    /\ pc' = "rebuild"
    /\ UNCHANGED <<readBack, scaleVars, fmtVars, expVars, embVars, nb, err, dashVars,
                   etlVars, precip, appNo, dupApps>>

\* "Uncomment if app needs to be redefined": app = JupyterDash(__name__),
\* at the head of the layout cell, which is then run again.
RedefineApp ==
    /\ nb = "dash" /\ pc = "rebuild"
    /\ appNo < MaxApps
    /\ appNo' = appNo + 1
    /\ appLive' = TRUE
    /\ pc' = "layout"
    /\ UNCHANGED <<readBack, scaleVars, fmtVars, expVars, embVars, nb, err, dashVars,
                   etlVars, precip, registered, dupApps, served, figure>>

\* app.kernel.do_shutdown(True)
Shutdown ==
    /\ nb = "dash" /\ pc = "rebuild"
    /\ pc' = "done"
    /\ UNCHANGED <<newVars, expVars, embVars, nb, err, dashVars, etlVars>>

DashNext ==
    \/ RegisterCallback
    \/ RunServer
    \/ \E d \in Dates, z \in BOOLEAN : UpdateGraph(d, z)
    \/ Terminate
    \/ RedefineApp
    \/ Shutdown
    \/ ReadCsv
    \/ DefineCols
    \/ \E p \in Parts : ComputeRead(p)
    \/ \E p \in Parts : ComputeTransform(p)
    \/ \E p \in Parts : ComputeGather(p)
    \/ ComputeReturn
    \/ MinMax
    \/ SetIndex
    \/ Layout

\* ====================================================== transform notebook
\* A column-group node: the Python name it is bound to, its op, the column
\* names it selects by string, the earlier groups it is built from, and its
\* position in declaration order.
Node(name, op, ins, parents, idx) ==
    [group |-> name, op |-> op, ins |-> ins, parents |-> parents, idx |-> idx]

Declared == {n.group : n \in graph}

\* Column names the declared graph selects by string from the data.
RootInputs == UNION {n.ins : n \in graph}

\* Selected column names that the data files do not hold.
Missing == RootInputs \ dataCols

\* df = cudf.read_parquet("data/parquet_out/*.parquet") ; df.head() : the
\* first cell reads the files into one table for viewing; with no file there
\* is no table to build and the cell raises.
ReadParquet ==
    /\ nb = "etl" /\ pc = "read_parquet"
    /\ IF present = {}
         THEN pc' = "error" /\ err' = "FileNotFoundError"
         ELSE pc' = "normalized_cols" /\ err' = err
    /\ UNCHANGED <<newVars, expVars, embVars, nb, dashVars, etlVars>>

\* A mutant of DeclareLagged: the declaration looks its input name up in the
\* data's schema and fails when it is absent.
DeclareLagged_Checked ==
    /\ nb = "etl" /\ pc = "lagged_cols"
    /\ IF "HourlyWindSpeed" \in dataCols
         THEN /\ graph' = graph \cup
                    {Node("lagged_cols", "DifferenceLag", {"HourlyWindSpeed"}, {}, 3)}
              /\ pc' = "numbered_cols"
              /\ err' = err
         ELSE /\ graph' = graph
              /\ pc' = "error"
              /\ err' = "UnresolvedColumnError"
    /\ UNCHANGED <<newVars, expVars, embVars, nb, dashVars, present, dataCols, file_paths, globbed, workflow,
                   dataset, hasDataset, fitSeen, stats, tstatus, outFiles>>

\* columns = ["HourlyDryBulbTemperature", "HourlyWetBulbTemperature"]
\* normalized_cols = columns >> nvt.ops.Normalize()
DeclareNormalized ==
    /\ nb = "etl" /\ pc = "normalized_cols"
    /\ graph' = graph \cup
          {Node("normalized_cols", "Normalize",
                {"HourlyDryBulbTemperature", "HourlyWetBulbTemperature"}, {}, 1)}
    /\ pc' = "celsius_cols"
    /\ UNCHANGED <<newVars, expVars, embVars, nb, err, dashVars, present, dataCols, file_paths, globbed, workflow,
                   dataset, hasDataset, fitSeen, stats, tstatus, outFiles>>

\* celsius_cols = ["HourlyDewPointTemperature"] >> nvt.ops.LambdaOp(fahrenheit_to_celsius)
DeclareCelsius ==
    /\ nb = "etl" /\ pc = "celsius_cols"
    /\ graph' = graph \cup
          {Node("celsius_cols", "LambdaOp", {"HourlyDewPointTemperature"}, {}, 2)}
    /\ pc' = "lagged_cols"
    /\ UNCHANGED <<newVars, expVars, embVars, nb, err, dashVars, present, dataCols, file_paths, globbed, workflow,
                   dataset, hasDataset, fitSeen, stats, tstatus, outFiles>>

\* lagged_cols = ["HourlyWindSpeed"] >> nvt.ops.DifferenceLag(partition_cols=["STATION"], shift=1)
DeclareLagged ==
    /\ nb = "etl" /\ pc = "lagged_cols"
    /\ graph' = graph \cup
          {Node("lagged_cols", "DifferenceLag", {"HourlyWindSpeed"}, {}, 3)}
    /\ pc' = "numbered_cols"
    /\ UNCHANGED <<newVars, expVars, embVars, nb, err, dashVars, present, dataCols, file_paths, globbed, workflow,
                   dataset, hasDataset, fitSeen, stats, tstatus, outFiles>>

\* remaining_cols = ["HourlyWindDirection", "HourlyRelativeHumidity"]
\* numbered_cols = remaining_cols + lagged_cols + celsius_cols + normalized_cols
\* numbered_cols = numbered_cols >> nvt.ops.FillMedian(add_binary_cols=True)
\* The names lagged_cols, celsius_cols and normalized_cols are Python
\* variables: they are bound by the cells above.
DeclareNumbered ==
    /\ nb = "etl" /\ pc = "numbered_cols"
    /\ {"lagged_cols", "celsius_cols", "normalized_cols"} \subseteq Declared
    /\ graph' = graph \cup
          {Node("numbered_cols_sum", "+",
                {"HourlyWindDirection", "HourlyRelativeHumidity"},
                {"lagged_cols", "celsius_cols", "normalized_cols"}, 4),
           Node("numbered_cols", "FillMedian", {}, {"numbered_cols_sum"}, 5)}
    /\ pc' = "all_cols"
    /\ UNCHANGED <<newVars, expVars, embVars, nb, err, dashVars, present, dataCols, file_paths, globbed, workflow,
                   dataset, hasDataset, fitSeen, stats, tstatus, outFiles>>

\* all_cols = numbered_cols + ["STATION", "DATE"]
DeclareAllCols ==
    /\ nb = "etl" /\ pc = "all_cols"
    /\ "numbered_cols" \in Declared
    /\ graph' = graph \cup {Node("all_cols", "+", {"STATION", "DATE"}, {"numbered_cols"}, 6)}
    /\ pc' = "glob"
    /\ UNCHANGED <<newVars, expVars, embVars, nb, err, dashVars, present, dataCols, file_paths, globbed, workflow,
                   dataset, hasDataset, fitSeen, stats, tstatus, outFiles>>

\* glob.glob(pattern): the matching paths, in the order the directory lists
\* them, which is arbitrary; an empty list when nothing matches.
GlobResults(matching) == Perms(matching)

\* file_paths = glob.glob("data/parquet_out/*.parquet")
Glob ==
    /\ nb = "etl" /\ pc = "glob"
    /\ file_paths' \in GlobResults(present)
    /\ globbed' = TRUE
    /\ pc' = "workflow"
    /\ UNCHANGED <<newVars, expVars, embVars, nb, err, dashVars, present, dataCols, graph, workflow,
                   dataset, hasDataset, fitSeen, stats, tstatus, outFiles>>

\* workflow = nvt.Workflow(all_cols) : built from the column groups alone.
Workflow ==
    /\ nb = "etl" /\ pc = "workflow"
    /\ "all_cols" \in Declared
    /\ workflow' = TRUE
    /\ pc' = "dataset"
    /\ UNCHANGED <<newVars, expVars, embVars, nb, err, dashVars, present, dataCols, graph, file_paths, globbed,
                   dataset, hasDataset, fitSeen, stats, tstatus, outFiles>>

\* dataset = nvt.Dataset(file_paths, engine="parquet")
Dataset ==
    /\ nb = "etl" /\ pc = "dataset"
    /\ dataset' = file_paths
    /\ hasDataset' = TRUE
    /\ pc' = "fit"
    /\ UNCHANGED <<newVars, expVars, embVars, nb, err, dashVars, present, dataCols, graph, file_paths, globbed,
                   workflow, fitSeen, stats, tstatus, outFiles>>

\* workflow.fit(dataset) applied to data that lacks a selected column: the
\* statistics of that column cannot be collected.
FitRaise ==
    /\ nb = "etl" /\ pc = "fit"
    /\ Missing # {}
    /\ err' = "KeyError"
    /\ pc' = "error"
    /\ UNCHANGED <<newVars, expVars, embVars, nb, dashVars, etlVars>>

FitApplies == Missing = {}

\* Inside workflow.fit(dataset): the statistics of one partition are collected.
FitCollect(p) ==
    /\ nb = "etl" /\ pc = "fit"
    /\ FitApplies
    /\ p \in Range(dataset) \ fitSeen
    /\ fitSeen' = fitSeen \cup {p}
    /\ UNCHANGED <<newVars, expVars, embVars, nb, pc, err, dashVars, present, dataCols, graph, file_paths, globbed,
                   workflow, dataset, hasDataset, stats, tstatus, outFiles>>

\* workflow.fit computes its statistics over all files of the dataset.
FitDone == fitSeen = Range(dataset)

\* workflow.fit(dataset) returns with the statistics.
FitReturn ==
    /\ nb = "etl" /\ pc = "fit"
    /\ FitApplies
    /\ FitDone
    /\ stats' = "fitted"
    /\ pc' = "rm"
    /\ UNCHANGED <<newVars, expVars, embVars, nb, err, dashVars, present, dataCols, graph, file_paths, globbed,
                   workflow, dataset, hasDataset, fitSeen, tstatus, outFiles>>

\* !rm -rf data/transformed_out
\* A mutant of Rm: the output directory is left as it was found.
Rm_Keep ==
    /\ nb = "etl" /\ pc = "rm"
    /\ pc' = "transform"
    /\ UNCHANGED <<newVars, expVars, embVars, nb, err, dashVars, present, dataCols, graph,
                   file_paths, globbed, workflow, dataset, hasDataset, fitSeen, stats,
                   tstatus, outFiles>>

Rm ==
    /\ nb = "etl" /\ pc = "rm"
    /\ outFiles' = {}
    /\ pc' = "transform"
    /\ UNCHANGED <<newVars, expVars, embVars, nb, err, dashVars, present, dataCols, graph, file_paths, globbed,
                   workflow, dataset, hasDataset, fitSeen, stats, tstatus>>

\* Inside workflow.transform(dataset).to_parquet(...): one partition is read.
TransformRead(p) ==
    /\ nb = "etl" /\ pc = "transform"
    /\ p \in Range(dataset)
    /\ tstatus[p] = "Unread"
    /\ tstatus' = [tstatus EXCEPT ![p] = "Read"]
    /\ UNCHANGED <<newVars, expVars, embVars, nb, pc, err, dashVars, present, dataCols, graph, file_paths, globbed,
                   workflow, dataset, hasDataset, fitSeen, stats, outFiles>>

\* Inside transform: the ops of the graph applied to one partition, Normalize
\* and FillMedian with the statistics of fit.
TransformApply(p) ==
    /\ nb = "etl" /\ pc = "transform"
    /\ p \in Range(dataset)
    /\ tstatus[p] = "Read"
    /\ tstatus' = [tstatus EXCEPT ![p] = "Transformed"]
    /\ UNCHANGED <<newVars, expVars, embVars, nb, pc, err, dashVars, present, dataCols, graph, file_paths, globbed,
                   workflow, dataset, hasDataset, fitSeen, stats, outFiles>>

\* Inside to_parquet: one partition's rows are written out.
TransformWrite(p) ==
    /\ nb = "etl" /\ pc = "transform"
    /\ p \in Range(dataset)
    /\ tstatus[p] = "Transformed"
    /\ tstatus' = [tstatus EXCEPT ![p] = "Materialized"]
    /\ outFiles' = outFiles \cup {p}
    /\ UNCHANGED <<newVars, expVars, embVars, nb, pc, err, dashVars, present, dataCols, graph, file_paths, globbed,
                   workflow, dataset, hasDataset, fitSeen, stats>>

\* workflow.transform(dataset).to_parquet(...) returns.
TransformReturn ==
    /\ nb = "etl" /\ pc = "transform"
    /\ \A p \in Range(dataset) : tstatus[p] = "Materialized"
    /\ pc' = "read_back"
    /\ UNCHANGED <<newVars, expVars, embVars, nb, err, dashVars, etlVars>>

\* df_transformed_out = cudf.read_parquet("data/transformed_out/*.parquet")
ReadBack ==
    /\ nb = "etl" /\ pc = "read_back"
    /\ readBack' = outFiles
    /\ pc' = "done"
    /\ UNCHANGED <<cbVars, scaleVars, fmtVars, expVars, embVars, nb, err, dashVars, etlVars>>

EtlNext ==
    \/ ReadParquet
    \/ DeclareNormalized
    \/ DeclareCelsius
    \/ DeclareLagged
    \/ DeclareNumbered
    \/ DeclareAllCols
    \/ Glob
    \/ Workflow
    \/ Dataset
    \/ FitRaise
    \/ \E p \in Paths : FitCollect(p)
    \/ FitReturn
    \/ Rm
    \/ \E p \in Paths : TransformRead(p)
    \/ \E p \in Paths : TransformApply(p)
    \/ \E p \in Paths : TransformWrite(p)
    \/ TransformReturn
    \/ ReadBack

\* ================================= Dask Integration and Other Tools (opt)
\* df = cudf.DataFrame({...}) ; dataset = nvt.Dataset(df)   "creates 1 partition"
DatasetFromDf ==
    /\ nb = "opt" /\ pc = "dataset_df"
    /\ dataset' = <<1>>
    /\ hasDataset' = TRUE
    /\ pc' = "glob_dir"
    /\ UNCHANGED <<newVars, expVars, embVars, nb, err, dashVars, present, dataCols, graph, file_paths, globbed,
                   workflow, fitSeen, stats, tstatus, outFiles>>

\* files = glob.glob("data/parquet_out") : a pattern without wildcard matches
\* the path itself when it exists.
GlobDir ==
    /\ nb = "opt" /\ pc = "glob_dir"
    /\ file_paths' \in GlobResults(present)
    /\ globbed' = TRUE
    /\ pc' = "dataset_files"
    /\ UNCHANGED <<newVars, expVars, embVars, nb, err, dashVars, present, dataCols, graph, workflow,
                   dataset, hasDataset, fitSeen, stats, tstatus, outFiles>>

\* dataset = nvt.Dataset(files, engine='parquet', part_size='100MB')
DatasetFromFiles ==
    /\ nb = "opt" /\ pc = "dataset_files"
    /\ dataset' = file_paths
    /\ hasDataset' = TRUE
    /\ pc' = "to_ddf"
    /\ UNCHANGED <<newVars, expVars, embVars, nb, err, dashVars, present, dataCols, graph, file_paths, globbed,
                   workflow, fitSeen, stats, tstatus, outFiles>>

\* nvt.Dataset on an empty list of paths: the notebooks do not say what the
\* constructor does with it, so it may also raise; dataset then keeps the
\* value of the cell before.
DatasetFromFilesRaise ==
    /\ nb = "opt" /\ pc = "dataset_files"
    /\ file_paths = <<>>
    /\ err' = "DatasetError"
    /\ pc' = "error"
    /\ UNCHANGED <<newVars, expVars, embVars, nb, dashVars, etlVars>>

\* ddf = dataset.to_ddf()
ToDdf ==
    /\ nb = "opt" /\ pc = "to_ddf"
    /\ pc' = "done"
    /\ UNCHANGED <<newVars, expVars, embVars, nb, err, dashVars, etlVars>>

OptNext ==
    \/ DatasetFromDf
    \/ GlobDir
    \/ DatasetFromFiles
    \/ DatasetFromFilesRaise
    \/ ToDdf

\* ================================================ data exploration notebook
\* The number a raw text denotes.
ToNumber(raw) ==
    CASE raw = "-9999" -> 0 - 9999
      [] raw = "0" -> 0
      [] raw = "5" -> 5

\* A cell of a table: <<>> is the missing value, <<n>> the number n.
NA == <<>>

Val(n) == <<n>>

\* A mutant of IsNa: na_values is ignored.
IsNa_Never(raw, na_values) == FALSE

\* A mutant of IsNa: a zero is taken for a missing value as well.
IsNa_Zero(raw, na_values) == raw \in na_values \/ ToNumber(raw) = 0

\* na_values=[...] : the texts of the list are treated as a missing value.
\* The list is given for the whole read, not for a column.
IsNa(raw, na_values) == raw \in na_values

ParseCell(raw, na_values) ==
    IF IsNa(raw, na_values) THEN NA ELSE Val(ToNumber(raw))

\* cudf.read_csv(path, na_values=...) over the rows of the file.
read_csv(rows, na_values) ==
    [i \in 1..Len(rows) |-> [c \in Cols |-> ParseCell(rows[i][c], na_values)]]

\* aqc_df = cudf.read_csv("data/AQC00914594.csv") : the -9999 stay in the
\* table (they show up as the minimum in aqc_df.describe()).
ReadPlain ==
    /\ nb = "explore" /\ pc = "read_plain"
    /\ aqc_df' = read_csv(csv, {})
    /\ aqcRead' = "plain"
    /\ pc' = "read_na"
    /\ UNCHANGED <<newVars, embVars, nb, err, dashVars, etlVars, csv, aqc_df_filtered>>

\* aqc_df = cudf.read_csv('data/AQC00914594.csv', na_values=['-9999'])
ReadNa ==
    /\ nb = "explore" /\ pc = "read_na"
    /\ aqc_df' = read_csv(csv, {"-9999"})
    /\ aqcRead' = "na_values"
    /\ pc' = "filter"
    /\ UNCHANGED <<newVars, embVars, nb, err, dashVars, etlVars, csv, aqc_df_filtered>>

\* aqc_df_filtered = aqc_df[aqc_df["HR00Val"] > 0] : "select only values
\* greater than 0"; a missing value is not one.
GreaterThanZero(row) == row["HR00Val"] # NA /\ row["HR00Val"][1] > 0

Filter ==
    /\ nb = "explore" /\ pc = "filter"
    /\ aqc_df_filtered' = SelectSeq(aqc_df, GreaterThanZero)
    /\ pc' = "done"
    /\ UNCHANGED <<newVars, embVars, nb, err, dashVars, etlVars, csv, aqc_df, aqcRead>>

ExpNext ==
    \/ ReadPlain
    \/ ReadNa
    \/ Filter

\* ======================================================= embedding notebook
\* ddf = dask_cudf.read_parquet(parquet_dir, columns=cols) ; gdf = ddf.compute()
ReadGdf ==
    /\ nb = "emb" /\ pc = "read_gdf"
    /\ gdf' = parquet
    /\ pc' = "decrement"
    /\ UNCHANGED <<newVars, expVars, nb, err, dashVars, etlVars, parquet, n_uniques>>

\* gdf[cat_cols] = gdf[cat_cols] - 1 : the categorical columns of gdf are
\* assigned anew under their own names.
DecrementCats ==
    /\ nb = "emb" /\ pc = "decrement"
    /\ gdf' = [i \in 1..Len(gdf) |-> [gdf[i] EXCEPT !.brand = @ - 1]]
    /\ pc' = "nunique"
    /\ UNCHANGED <<newVars, expVars, nb, err, dashVars, etlVars, parquet, n_uniques>>

\* n_uniques = gdf.nunique()
NUnique ==
    /\ nb = "emb" /\ pc = "nunique"
    /\ n_uniques' = Cardinality({gdf[i].brand : i \in 1..Len(gdf)})
    /\ pc' = "done"
    /\ UNCHANGED <<newVars, expVars, nb, err, dashVars, etlVars, parquet, gdf>>

EmbNext ==
    \/ ReadGdf
    \/ DecrementCats
    \/ NUnique

\* ========================================================= scaling notebook
\* ddf = dask_cudf.read_csv("data/*.csv", usecols=..., dtype=..., na_values=...)
ReadCsvLazy ==
    /\ nb = "scale" /\ pc = "read_csv_lazy"
    /\ pc' = "len"
    /\ UNCHANGED <<newVars, expVars, embVars, nb, err, dashVars, etlVars>>

RECURSIVE SumRows(_)
SumRows(S) ==
    IF S = {} THEN 0
    ELSE LET p == CHOOSE x \in S : TRUE IN rowsIn[p] + SumRows(S \ {p})

\* Inside len(ddf): "dask_cudf is adding up the results across all of the csv
\* files"; one file is read and its rows are counted.
LenRead(p) ==
    /\ nb = "scale" /\ pc = "len"
    /\ p \notin counted
    /\ counted' = counted \cup {p}
    /\ readsBy' = readsBy \cup {"len"}
    /\ UNCHANGED <<cbVars, readBack, fmtVars, expVars, embVars, nb, pc, err, dashVars,
                   etlVars, rowsIn, lenResult, described>>

\* A mutant of LenDone: len(ddf) answers without waiting for any file.
LenDone_Lazy == TRUE

\* len(ddf) has the counts of all files.
LenDone == counted = Parts

\* len(ddf) returns the number of rows.
LenReturn ==
    /\ nb = "scale" /\ pc = "len"
    /\ LenDone
    /\ lenResult' = SumRows(counted)
    /\ counted' = {}
    /\ pc' = "describe"
    /\ UNCHANGED <<cbVars, readBack, fmtVars, expVars, embVars, nb, err, dashVars,
                   etlVars, rowsIn, readsBy, described>>

\* ddf[["LATITUDE", "LONGITUDE", "DlySum"]].describe() : "Hmm, no results."
Describe ==
    /\ nb = "scale" /\ pc = "describe"
    /\ described' = "lazy"
    /\ pc' = "compute_describe"
    /\ UNCHANGED <<cbVars, readBack, fmtVars, expVars, embVars, nb, err, dashVars,
                   etlVars, rowsIn, counted, readsBy, lenResult>>

\* Inside ddf[[...]].compute(): one file is read.
DescribeComputeRead(p) ==
    /\ nb = "scale" /\ pc = "compute_describe"
    /\ p \notin counted
    /\ counted' = counted \cup {p}
    /\ readsBy' = readsBy \cup {"compute"}
    /\ UNCHANGED <<cbVars, readBack, fmtVars, expVars, embVars, nb, pc, err, dashVars,
                   etlVars, rowsIn, lenResult, described>>

\* ddf[[...]].compute().describe() : the statistics of the concrete table.
DescribeComputeReturn ==
    /\ nb = "scale" /\ pc = "compute_describe"
    /\ counted = Parts
    /\ described' = "table"
    /\ counted' = {}
    /\ pc' = "persist"
    /\ UNCHANGED <<cbVars, readBack, fmtVars, expVars, embVars, nb, err, dashVars,
                   etlVars, rowsIn, readsBy, lenResult>>

\* ddf = ddf.persist() : "Another way to force computation".
Persist ==
    /\ nb = "scale" /\ pc = "persist"
    /\ readsBy' = readsBy \cup {"persist"}
    /\ pc' = "done"
    /\ UNCHANGED <<cbVars, readBack, fmtVars, expVars, embVars, nb, err, dashVars,
                   etlVars, rowsIn, counted, lenResult, described>>

ScaleNext ==
    \/ ReadCsvLazy
    \/ \E p \in Parts : LenRead(p)
    \/ LenReturn
    \/ Describe
    \/ \E p \in Parts : DescribeComputeRead(p)
    \/ DescribeComputeReturn
    \/ Persist

\* ==================================================== data formats notebook
\* What the live API can do with a request: answer, answer 400 Bad Request,
\* or not answer ("there is a chance that it may be experiencing downtime").
ApiOutcomes == {"up", "bad_request", "silent"}

\* with urllib.request.urlopen(url) as url: ... the first fetch (range 2).
\* The call passes no timeout, and the notebook sets no default timeout.
UrlOpen ==
    /\ nb = "fmt" /\ pc = "fetch"
    /\ api' \in ApiOutcomes
    /\ urlTimeout' = "none"
    /\ fetchNo' = 1
    /\ pc' = "in_urlopen"
    /\ UNCHANGED <<cbVars, readBack, scaleVars, expVars, embVars, nb, err, dashVars,
                   etlVars, saved>>

\* url_parameters["range"] = 365 * 24 ; with urllib.request.urlopen(url) as url:
UrlOpenYear ==
    /\ nb = "fmt" /\ pc = "fetch_year"
    /\ api' \in ApiOutcomes
    /\ urlTimeout' = "none"
    /\ fetchNo' = 2
    /\ pc' = "in_urlopen"
    /\ UNCHANGED <<cbVars, readBack, scaleVars, expVars, embVars, nb, err, dashVars,
                   etlVars, saved>>

\* The API answers: data = json.loads(url.read().decode())
UrlOpenReturn ==
    /\ nb = "fmt" /\ pc = "in_urlopen"
    /\ api = "up"
    /\ api' = "idle"
    /\ pc' = IF fetchNo = 1 THEN "fetch_year" ELSE "dump"
    /\ UNCHANGED <<cbVars, readBack, scaleVars, expVars, embVars, nb, err, dashVars,
                   etlVars, urlTimeout, fetchNo, saved>>

\* "If you receive a 400 Bad Request error ..." : urlopen raises.
UrlOpenBadRequest ==
    /\ nb = "fmt" /\ pc = "in_urlopen"
    /\ api = "bad_request"
    /\ api' = "idle"
    /\ err' = "HTTPError"
    /\ pc' = "error"
    /\ UNCHANGED <<cbVars, readBack, scaleVars, expVars, embVars, nb, dashVars,
                   etlVars, urlTimeout, fetchNo, saved>>

\* with open("data/" + station + ".txt", 'w') as outfile: json.dump(...)
Dump ==
    /\ nb = "fmt" /\ pc = "dump"
    /\ saved' = TRUE
    /\ pc' = "done"
    /\ UNCHANGED <<cbVars, readBack, scaleVars, expVars, embVars, nb, err, dashVars,
                   etlVars, api, urlTimeout, fetchNo>>

FmtNext ==
    \/ UrlOpen
    \/ UrlOpenYear
    \/ UrlOpenReturn
    \/ UrlOpenBadRequest
    \/ Dump

Next == DashNext \/ EtlNext \/ OptNext \/ ExpNext \/ EmbNext \/ ScaleNext \/ FmtNext

\* ================================================================== claims
AllDates == UNION {dates[p] : p \in Parts}

\* C2: a cross-partition aggregate is computed only after every partition has
\* passed the barrier, and a step that depends on the aggregate runs only
\* after the aggregate exists.  date_min/date_max are bound only when every
\* CSV partition is at least Transformed, and are then the minimum/maximum
\* over all partitions; app.layout takes its bounds only from a computed
\* date_min/date_max; the statistics of fit exist only when fit has collected
\* every partition, and no partition is touched by transform before then.
C2_AggregateAfterBarrier ==
    /\ (date_min # 0 \/ date_max # 0) =>
          /\ \A p \in Parts : dstatus[p] \in {"Transformed", "Materialized"}
          /\ date_min = Min(AllDates)
          /\ date_max = Max(AllDates)
    /\ layout.set =>
          /\ date_min # 0 /\ date_max # 0
          /\ layout.min_date_allowed = date_min
          /\ layout.max_date_allowed = date_max
    /\ stats = "fitted" => hasDataset /\ fitSeen = Range(dataset)
    /\ \A p \in Paths : tstatus[p] # "Unread" => stats = "fitted"

\* C2 witness: the layout has taken its bounds from an aggregate over two
\* partitions that hold different dates.
C2_Witness ==
    /\ nb = "dash"
    /\ layout.set
    /\ layout.min_date_allowed < layout.max_date_allowed
    /\ \E p, q \in Parts : Min(dates[p]) # Min(dates[q])

C9_NotFoundOnEmpty == globbed => (present # {} /\ file_paths # <<>>)

\* C10 as stated: the enumeration is in lexicographic order of the paths,
\* whatever order the directory lists them in.
C10_LexicographicOrder == globbed => file_paths = Sorted(present)

\* Columns for which the documentation of the data reserves -9999 as the
\* missing value: the hourly values.
SentinelCols == {"HR00Val"}

\* C12: after a read with na_values=['-9999'], every cell whose raw text is
\* -9999 is the missing value, and no cell of the table holds the value -9999.
C12_SentinelBecomesAbsent ==
    aqcRead = "na_values" =>
        /\ Len(aqc_df) = Len(csv)
        /\ \A i \in 1..Len(csv) : \A c \in Cols :
              /\ csv[i][c] = "-9999" => aqc_df[i][c] = NA
              /\ aqc_df[i][c] # Val(0 - 9999)

\* C12 witness: the read with na_values has run over a file that holds a
\* -9999 in an hourly value, and that cell is missing in the table.
C12_Witness ==
    /\ aqcRead = "na_values"
    /\ \E i \in 1..Len(csv) : csv[i]["HR00Val"] = "-9999" /\ aqc_df[i]["HR00Val"] = NA

\* C13 as stated: a raw -9999 in a column that has no sentinel of its own is
\* not replaced by the missing value.
C13_NoCrossApplication ==
    aqcRead = "na_values" =>
        \A i \in 1..Len(aqc_df) : \A c \in Cols \ SentinelCols : aqc_df[i][c] # NA

\* The rows of a table whose hourly value is not missing.
HasValue(row) == row["HR00Val"] # NA

DropAbsent(table) == SelectSeq(table, HasValue)

NotSentinel(rawRow) == rawRow["HR00Val"] # "-9999"

C19_InputsNotMutated ==
    (nb = "emb" /\ pc # "read_gdf") =>
        \A i \in 1..Len(parquet) : gdf[i].brand = parquet[i].brand

\* C22 as stated: a network fetch is always made with a timeout chosen by the
\* caller, so a fetch that the service never answers does not wait for ever.
C22_TimeoutBoundsWait ==
    (nb = "fmt" /\ pc = "in_urlopen" /\ api = "silent") => urlTimeout # "none"

\* C23: the callbacks of the dashboard only read the shared table: whatever
\* callbacks ran before, the table holds the rows that were read, and the
\* figure on display is the one its own date and switch give on those rows.
C23_CallbacksReadOnly ==
    /\ df = "table" => dfRows = AllDates
    /\ figure.set =>
          figure.points =
              {[DATE |-> d, Inches |-> precip[d]] :
                  d \in {x \in AllDates :
                            x = figure.date /\ (figure.zeros \/ precip[x] # 0)}}

\* C23 witness: a second application object serves a figure that shows a day
\* without rain, with the switch on, after the first object served callbacks.
C23_Witness ==
    /\ nb = "dash" /\ pc = "serving"
    /\ appNo = 2
    /\ figure.set /\ figure.zeros
    /\ precip[figure.date] = 0
    /\ figure.points = {[DATE |-> figure.date, Inches |-> 0]}
    /\ \E d \in AllDates : precip[d] # 0

\* C24 as stated: only compute and persist read the files; no other call on
\* the lazy table, the number of rows included, reads a partition.
C24_OnlyEvaluateComputes == readsBy \subseteq {"compute", "persist"}

\* C24 amended: len(ddf) forces a result, it reads every file and returns
\* the total number of rows; describe() on the lazy table reads nothing, and
\* nothing but len, compute and persist reads the files.
C24_LenForcesResult ==
    /\ readsBy \subseteq {"len", "compute", "persist"}
    /\ lenResult # 0 - 1 => ("len" \in readsBy /\ lenResult = SumRows(Parts))
    /\ (nb = "scale" /\ pc = "compute_describe" /\ counted = {}) =>
          (described = "lazy" /\ readsBy = {"len"})
    /\ described = "table" => "compute" \in readsBy

\* C24 witness: len(ddf) has returned the rows of two files of different
\* sizes and describe() has returned its lazy result, before any compute.
C24_Witness ==
    /\ nb = "scale" /\ pc = "compute_describe" /\ counted = {}
    /\ described = "lazy"
    /\ readsBy = {"len"}
    /\ lenResult = SumRows(Parts)
    /\ lenResult > Cardinality(Parts)
    /\ rowsIn[1] # rowsIn[2]

\* C28: registering update_graph a second time on the same application
\* object gives the duplicate callback error; an object that was constructed
\* after the old one was terminated and deleted has no such error until it
\* too gets a second registration; the table read at the start is untouched
\* by the teardown and the new construction.
C28_DuplicateCallback ==
    /\ (appLive /\ registered > 1) => appNo \in dupApps
    /\ (appLive /\ registered <= 1) => appNo \notin dupApps
    /\ dupApps \subseteq 1..appNo
    /\ (nb = "dash" /\ pc \in {"callbacks", "serving", "rebuild"}) =>
          (df = "table" /\ dfRows = AllDates /\ date_min = Min(AllDates))

\* C28 witness: the first object had the error, it was deleted, and the
\* second object serves with one registration and no error.
C28_Witness ==
    /\ nb = "dash" /\ pc = "serving"
    /\ appNo = 2 /\ appLive /\ served
    /\ registered = 1
    /\ dupApps = {1}
    /\ df = "table"

\* C29 as stated: after the subtraction and with the table sizes taken from
\* the number of distinct values, every categorical value v passed to an
\* embedding table satisfies 0 <= v < n_categories.
C29_IndexWithinTable ==
    (nb = "emb" /\ pc = "done") =>
        \A i \in 1..Len(gdf) : 0 <= gdf[i].brand /\ gdf[i].brand < n_uniques

\* C30: the files the read-back finds in the output directory are exactly
\* the files written by the materialization that just completed, whatever
\* the directory held before; the input list is taken from the input
\* directory alone.
C30_ReadBackIsThisRun ==
    /\ (nb = "etl" /\ pc = "done") =>
          (readBack = Range(dataset) /\ readBack = outFiles)
    /\ (nb = "etl" /\ pc \in {"transform", "read_back"}) =>
          outFiles \subseteq Range(dataset)
    /\ (nb = "etl" /\ globbed) => Range(file_paths) \subseteq present

\* C30 witness: a run has read back some files, and not every name the
\* output directory could have held before.
C30_Witness ==
    /\ nb = "etl" /\ pc = "done"
    /\ readBack # {}
    /\ readBack # Paths
    /\ readBack = Range(dataset)

Spec == Init /\ [][Next]_vars
====
